---------------------------- MODULE Spec2Model ----------------------------
(* State-machine model of DefectTracker                                    *)
(* (quality-assurance-skill/scripts/defect_tracker.py).                    *)
(*                                                                         *)
(* The store is one SQLite database file holding the tables `defects` and  *)
(* `defect_history`.  Every caller owns a DefectTracker, i.e. its own      *)
(* connection and cursor.  A method is a sequence of store accesses; each  *)
(* write statement is followed at once by conn.commit(), so each access is *)
(* one atomic step on the shared file and the state between two steps is a *)
(* committed state that every other connection can read.                   *)
(*                                                                         *)
(* The connections are opened in sqlite3's default mode: a BEGIN is issued *)
(* before every INSERT and UPDATE, and only conn.commit() ends the         *)
(* transaction.  An INSERT that fails on a constraint has taken the write  *)
(* lock of the file and no method rolls back, so the connection keeps the  *)
(* lock until its next write commits.  A write statement of another        *)
(* connection then waits for the busy timeout of sqlite3.connect (5 s) and *)
(* raises OperationalError (database is locked).  txn holds, per           *)
(* connection, "reserved" for the holder of the lock, "open" for a         *)
(* connection whose write was refused (its BEGIN stays in force) and       *)
(* "none" otherwise.  A connection is followed up to the first such        *)
(* refusal: it starts no further call afterwards.  Readers are not blocked *)
(* by the lock.                                                            *)
(*                                                                         *)
(* A nullable column or a Python argument that may be None holds NULL      *)
(* (the empty tuple) or Some(v) (a one-element tuple).  Timestamps are the *)
(* readings of a wall clock that never runs backwards; isoformat() text    *)
(* compares like the instant it encodes, so a timestamp is kept as the     *)
(* clock reading itself.  The datetime.now() that supplies a statement's   *)
(* timestamp is read in the step of that statement.                        *)
(*                                                                         *)
(* search_defects is one SELECT and so one step.  get_metrics is six        *)
(* SELECTs; it is one step in the specification of a single connection,    *)
(* where no write can fall between them.  One unit of the clock is one day *)
(* where a duration is computed.                                           *)
(*                                                                         *)
(* pre, last_writer, mutations and calls record the run (what a call met   *)
(* when it was issued, whose UPDATE came last, how many calls succeeded);   *)
(* no statement of the program reads them.                                 *)
EXTENDS Integers, Sequences, FiniteSets, TLC

VARIABLES
    defects,      \* table defects: id -> row
    seq,          \* sqlite_sequence of defects (AUTOINCREMENT high-water mark)
    history,      \* table defect_history, in rowid order
    clock,        \* datetime.now()
    pc,           \* per connection: the statement the running call executes next
    call,         \* per connection: the running (or last finished) call and its arguments
    result,       \* per connection: the row fetched by the call's SELECT
    lastrowid,    \* per connection: cursor.lastrowid
    ret,          \* per connection: outcome of the last finished call
    pre,          \* per connection: the two tables as they were when the call was issued
    last_writer,  \* per defect id: the connection whose UPDATE of that row committed last
    mutations,    \* per defect id: the successful mutating calls made against the existing defect
    calls,        \* number of calls issued so far
    txn           \* per connection: the transaction it has left open

vars == <<defects, seq, history, clock, pc, call, result, lastrowid, ret, pre,
          last_writer, mutations, calls, txn>>

----------------------------------------------------------------------------
(* Bounds of the model *)

MaxDefects == 1

MaxCalls == 3

MaxTime == 1

\* rows of the defects table in the specifications of the readers and creators
MaxRows == 2

(* Values *)

NULL == <<>>

Some(v) == <<v>>

Procs == {"c1", "c2"}

DefectStatus ==
    {"New", "Open", "Assigned", "In Progress", "Fixed", "Verified", "Closed",
     "Reopened", "Deferred", "Rejected"}

DefectSeverity == 1..5

DefectPriority == 1..4

\* ids a caller may pass: every id the store can hold and one it never holds
IdArgs == 1..(MaxDefects + 1)

\* statuses passed by callers that run concurrently
StatusArgs == {"Fixed", "Closed", "Reopened"}

AssigneeArgs == {"alice", "bob"}

TitleArgs == {NULL, Some("crash on save")}

\* None or DefectSeverity.MAJOR.value
SeverityArgs == {NULL} \cup {Some(v) : v \in {w \in DefectSeverity : w = 2}}

\* None or DefectPriority.MEDIUM.value
PriorityArgs == {NULL} \cup {Some(v) : v \in {w \in DefectPriority : w = 3}}

FoundByArgs == {NULL, Some("qa")}

ResolvedByArgs == {NULL, Some(""), Some("dev")}

RootCauseArgs == {NULL, Some("race")}

\* DefectSeverity(sev).name
SeverityName(sev) ==
    CASE sev = 1 -> "CRITICAL" [] sev = 2 -> "MAJOR" [] sev = 3 -> "MODERATE"
      [] sev = 4 -> "MINOR" [] sev = 5 -> "TRIVIAL"

\* DefectPriority(pri).name
PriorityName(pri) ==
    CASE pri = 1 -> "IMMEDIATE" [] pri = 2 -> "HIGH" [] pri = 3 -> "MEDIUM"
      [] pri = 4 -> "LOW"

\* the keyword arguments search_defects looks at
SearchKeys == {"status", "severity", "priority", "assigned_to", "module"}

\* **criteria: for each key NULL (the key is not passed), Some(NULL) (the key
\* is passed with None) or Some(Some(v)) (the key is passed with v)
CriteriaArgs ==
    [status : {NULL, Some(Some("Closed"))},
     severity : {NULL, Some(Some(2))},
     priority : {NULL, Some(Some(3))},
     assigned_to : {NULL, Some(NULL), Some(Some("alice"))},
     module : {NULL, Some(NULL), Some(Some("ui"))}]

NoCall == [op |-> "none", no |-> 0]

NoResult == [kind |-> "none"]

Returned(v) == [kind |-> "return", value |-> v]

\* the defect id create_defect returns
ReturnedId(id) == [kind |-> "return", id |-> id]

\* the list of dicts search_defects returns and the dict get_metrics returns
\* (a returned value of another type is kept in a field of its own, so that
\* two outcomes are compared only where their types agree)
ReturnedRows(rows) == [kind |-> "return", rows |-> rows]

ReturnedMetrics(metrics) == [kind |-> "return", metrics |-> metrics]

\* an error that is caught and handed back as the value of the call
RaisedAsValue(e) == [kind |-> "return", exc |-> e]

Raised(e) == [kind |-> "raise", exc |-> e]

\* what a call meets when it is issued: the two tables, and the calls that
\* other connections have in progress
Snapshot ==
    [defects |-> defects, history |-> history,
     running |-> {call[r].no : r \in {r \in Procs : pc[r] # "idle"}}]

----------------------------------------------------------------------------
(* The store *)

\* kwargs.get(key)
KwGet(kwargs, key) == IF key \in DOMAIN kwargs THEN Some(kwargs[key]) ELSE NULL

\* the row written by the INSERT of create_defect; unlisted columns are NULL
NewRow(title, description, severity, priority, module, found_by, found_date, kwargs) ==
    [title |-> title[1], description |-> description, severity |-> severity[1],
     priority |-> priority[1], status |-> "New", module |-> module,
     found_by |-> found_by[1], assigned_to |-> NULL, found_date |-> found_date,
     fixed_date |-> NULL, verified_date |-> NULL, closed_date |-> NULL,
     environment |-> KwGet(kwargs, "environment"),
     steps_to_reproduce |-> KwGet(kwargs, "steps_to_reproduce"),
     expected_result |-> KwGet(kwargs, "expected_result"),
     actual_result |-> KwGet(kwargs, "actual_result"),
     root_cause |-> NULL, resolution |-> NULL,
     test_case_id |-> KwGet(kwargs, "test_case_id"),
     build_version |-> KwGet(kwargs, "build_version"),
     attachments |-> NULL]

\* SelectStatus without its WHERE clause: the first row of the table
SelectStatusAnyRow(table, id) ==
    IF DOMAIN table # {}
    THEN Some(<<table[CHOOSE d \in DOMAIN table : \A e \in DOMAIN table : d <= e].status>>)
    ELSE NULL

\* SELECT status FROM defects WHERE id = ? ; fetchone()
SelectStatus(table, id) ==
    IF id \in DOMAIN table THEN Some(<<table[id].status>>) ELSE NULL

\* SELECT assigned_to, status FROM defects WHERE id = ? ; fetchone()
SelectAssignment(table, id) ==
    IF id \in DOMAIN table
    THEN Some(<<table[id].assigned_to, table[id].status>>)
    ELSE NULL

\* StatusUpdate with a strict state machine: a Closed or Rejected defect stays as it is
StatusUpdateStrict(table, id, new_status, now) ==
    [d \in DOMAIN table |->
        IF d # id \/ table[d].status \in {"Closed", "Rejected"} THEN table[d]
        ELSE IF new_status = "Fixed"
             THEN [table[d] EXCEPT !.status = new_status, !.fixed_date = Some(now)]
        ELSE IF new_status = "Verified"
             THEN [table[d] EXCEPT !.status = new_status, !.verified_date = Some(now)]
        ELSE IF new_status = "Closed"
             THEN [table[d] EXCEPT !.status = new_status, !.closed_date = Some(now)]
        ELSE [table[d] EXCEPT !.status = new_status]]

\* update_status that also stamps closed_date when a defect is rejected
StatusUpdateStampsRejected(table, id, new_status, now) ==
    [d \in DOMAIN table |->
        IF d # id THEN table[d]
        ELSE IF new_status = "Fixed"
             THEN [table[d] EXCEPT !.status = new_status, !.fixed_date = Some(now)]
        ELSE IF new_status = "Verified"
             THEN [table[d] EXCEPT !.status = new_status, !.verified_date = Some(now)]
        ELSE IF new_status \in {"Closed", "Rejected"}
             THEN [table[d] EXCEPT !.status = new_status, !.closed_date = Some(now)]
        ELSE [table[d] EXCEPT !.status = new_status]]

\* StatusUpdate that has no date branch for Verified
StatusUpdateSkipsVerified(table, id, new_status, now) ==
    [d \in DOMAIN table |->
        IF d # id THEN table[d]
        ELSE IF new_status = "Fixed"
             THEN [table[d] EXCEPT !.status = new_status, !.fixed_date = Some(now)]
        ELSE IF new_status = "Closed"
             THEN [table[d] EXCEPT !.status = new_status, !.closed_date = Some(now)]
        ELSE [table[d] EXCEPT !.status = new_status]]

\* StatusUpdate without its WHERE clause: every row is moved
StatusUpdateAllRows(table, id, new_status, now) ==
    [d \in DOMAIN table |->
        IF new_status = "Fixed"
        THEN [table[d] EXCEPT !.status = new_status, !.fixed_date = Some(now)]
        ELSE IF new_status = "Verified"
             THEN [table[d] EXCEPT !.status = new_status, !.verified_date = Some(now)]
        ELSE IF new_status = "Closed"
             THEN [table[d] EXCEPT !.status = new_status, !.closed_date = Some(now)]
        ELSE [table[d] EXCEPT !.status = new_status]]

\* UPDATE defects SET status = ? [, <state>_date = ?] WHERE id = ?
\* (a statement that matches no row succeeds and changes nothing)
StatusUpdate(table, id, new_status, now) ==
    [d \in DOMAIN table |->
        IF d # id THEN table[d]
        ELSE IF new_status = "Fixed"
             THEN [table[d] EXCEPT !.status = new_status, !.fixed_date = Some(now)]
        ELSE IF new_status = "Verified"
             THEN [table[d] EXCEPT !.status = new_status, !.verified_date = Some(now)]
        ELSE IF new_status = "Closed"
             THEN [table[d] EXCEPT !.status = new_status, !.closed_date = Some(now)]
        ELSE [table[d] EXCEPT !.status = new_status]]

\* AssignUpdate that keeps an assignee already stored (the first assignment wins)
AssignUpdateFirstWins(table, id, assignee, fetched_status) ==
    [d \in DOMAIN table |->
        IF d # id \/ table[d].assigned_to # NULL THEN table[d]
        ELSE IF fetched_status = "New"
             THEN [table[d] EXCEPT !.assigned_to = Some(assignee), !.status = "Assigned"]
        ELSE [table[d] EXCEPT !.assigned_to = Some(assignee)]]

\* AssignUpdate that moves the defect to Assigned whatever status was fetched
AssignUpdateAlways(table, id, assignee, fetched_status) ==
    [d \in DOMAIN table |->
        IF d # id THEN table[d]
        ELSE [table[d] EXCEPT !.assigned_to = Some(assignee), !.status = "Assigned"]]

\* UPDATE defects SET assigned_to = ? [, status = 'Assigned'] WHERE id = ? ;
\* the statement is chosen from the status the SELECT returned
AssignUpdate(table, id, assignee, fetched_status) ==
    [d \in DOMAIN table |->
        IF d # id THEN table[d]
        ELSE IF fetched_status = "New"
             THEN [table[d] EXCEPT !.assigned_to = Some(assignee), !.status = "Assigned"]
        ELSE [table[d] EXCEPT !.assigned_to = Some(assignee)]]

\* ResolutionUpdate that also marks the defect fixed
ResolutionUpdateFixes(table, id, resolution, root_cause) ==
    [d \in DOMAIN table |->
        IF d # id THEN table[d]
        ELSE [table[d] EXCEPT !.resolution = Some(resolution), !.root_cause = root_cause,
                              !.status = "Fixed"]]

\* ResolutionUpdate that keeps the resolution in the description as well
ResolutionUpdateDescribes(table, id, resolution, root_cause) ==
    [d \in DOMAIN table |->
        IF d # id THEN table[d]
        ELSE [table[d] EXCEPT !.resolution = Some(resolution), !.root_cause = root_cause,
                              !.description = Some(resolution)]]

\* UPDATE defects SET resolution = ?, root_cause = ? WHERE id = ?
ResolutionUpdate(table, id, resolution, root_cause) ==
    [d \in DOMAIN table |->
        IF d # id THEN table[d]
        ELSE [table[d] EXCEPT !.resolution = Some(resolution), !.root_cause = root_cause]]

\* a lastrowid that belongs to the database instead of the cursor: every
\* connection sees the rowid of the latest INSERT
LastRowIdShared(rowids, p, id) == [q \in DOMAIN rowids |-> Some(id)]

\* cursor.lastrowid after the INSERT of connection p
LastRowId(rowids, p, id) == [rowids EXCEPT ![p] = Some(id)]

\* the connection whose UPDATE of row id committed last
Writer(id, p) ==
    IF id \in DOMAIN defects THEN [last_writer EXCEPT ![id] = Some(p)] ELSE last_writer

\* INSERT INTO defects
InsertDefect(table, id, row) ==
    [d \in DOMAIN table \cup {id} |-> IF d = id THEN row ELSE table[d]]

\* log_change that records nothing when the value did not change
log_change_dedup(h, now, defect_id, changed_by, field_changed, old_value, new_value, comment) ==
    IF old_value = new_value THEN h
    ELSE Append(h, [defect_id |-> defect_id, changed_by |-> changed_by,
                    change_date |-> now, field_changed |-> field_changed,
                    old_value |-> old_value, new_value |-> new_value,
                    comment |-> comment])

\* log_change that keeps one row per defect and field: the row of an earlier
\* change of the same field is overwritten
log_change_replace(h, now, defect_id, changed_by, field_changed, old_value, new_value, comment) ==
    LET row == [defect_id |-> defect_id, changed_by |-> changed_by,
                change_date |-> now, field_changed |-> field_changed,
                old_value |-> old_value, new_value |-> new_value,
                comment |-> comment]
        same == {i \in DOMAIN h : h[i].defect_id = defect_id
                                    /\ h[i].field_changed = field_changed}
    IN IF same = {} THEN Append(h, row)
       ELSE [i \in DOMAIN h |-> IF i \in same THEN row ELSE h[i]]

\* _log_change: one row appended to defect_history (no foreign-key check is
\* made: SQLite enforces FOREIGN KEY only under PRAGMA foreign_keys = ON)
log_change(h, now, defect_id, changed_by, field_changed, old_value, new_value, comment) ==
    Append(h, [defect_id |-> defect_id, changed_by |-> changed_by,
               change_date |-> now, field_changed |-> field_changed,
               old_value |-> old_value, new_value |-> new_value,
               comment |-> comment])

\* the clock readings a datetime.now() may return: time has stood still or advanced
Readings == {t \in {clock, clock + 1} : t <= MaxTime}

Idle(p) == pc[p] = "idle"

\* one more successful mutating call against defect id, if the call met it
Counted(p, id) ==
    IF id \in DOMAIN pre[p].defects
    THEN [mutations EXCEPT ![id] = @ + 1]
    ELSE mutations

\* Python truth value of an optional string
Truthy(x) == x # NULL /\ x # Some("")

\* f"Root cause: {root_cause}"
RootCauseComment(root_cause) ==
    IF root_cause = NULL THEN "Root cause: None" ELSE "Root cause: " \o root_cause[1]

\* another connection holds the write lock of the database file
Locked(p) == \E q \in Procs \ {p} : txn[q] = "reserved"

\* conn.commit() of connection p
Commit(p) == [txn EXCEPT ![p] = "none"]

\* the write statement of connection p has been refused
Refused(p) == [txn EXCEPT ![p] = "open"]

CanCall(p) == Idle(p) /\ calls < MaxCalls /\ txn[p] # "open"

Init ==
    /\ defects = <<>>
    /\ seq = 0
    /\ history = <<>>
    /\ clock = 0
    /\ pc = [p \in Procs |-> "idle"]
    /\ call = [p \in Procs |-> NoCall]
    /\ result = [p \in Procs |-> NULL]
    /\ lastrowid = [p \in Procs |-> NULL]
    /\ ret = [p \in Procs |-> NoResult]
    /\ pre = [p \in Procs |-> Snapshot]
    /\ last_writer = [d \in IdArgs |-> NULL]
    /\ mutations = [d \in IdArgs |-> 0]
    /\ calls = 0
    /\ txn = [p \in Procs |-> "none"]

----------------------------------------------------------------------------
(* create_defect: INSERT + commit, then _log_change + commit *)

create_insert(p, title, description, severity, priority, found_by, module, kwargs) ==
    /\ CanCall(p)
    /\ seq < MaxRows
    /\ calls' = calls + 1
    /\ pre' = [pre EXCEPT ![p] = Snapshot]
    /\ call' = [call EXCEPT ![p] =
                   [op |-> "create_defect", no |-> calls + 1, title |-> title,
                    severity |-> severity, priority |-> priority,
                    found_by |-> found_by]]
    /\ result' = [result EXCEPT ![p] = NULL]
    /\ \E now \in Readings :
         /\ clock' = now
         /\ IF severity = NULL \/ priority = NULL
            THEN \* None.value
                 /\ ret' = [ret EXCEPT ![p] = Raised("AttributeError")]
                 /\ UNCHANGED <<defects, seq, lastrowid, pc, txn>>
            ELSE IF Locked(p)
            THEN \* database is locked
                 /\ ret' = [ret EXCEPT ![p] = Raised("OperationalError")]
                 /\ txn' = Refused(p)
                 /\ UNCHANGED <<defects, seq, lastrowid, pc>>
            ELSE IF title = NULL \/ found_by = NULL
            THEN \* NOT NULL constraint failed; the transaction stays open
                 /\ ret' = [ret EXCEPT ![p] = Raised("IntegrityError")]
                 /\ txn' = [txn EXCEPT ![p] = "reserved"]
                 /\ UNCHANGED <<defects, seq, lastrowid, pc>>
            ELSE /\ txn' = Commit(p)
                 /\ defects' = InsertDefect(defects, seq + 1,
                                   NewRow(title, description, severity, priority,
                                          module, found_by, now, kwargs))
                 /\ seq' = seq + 1
                 /\ lastrowid' = LastRowId(lastrowid, p, seq + 1)
                 /\ pc' = [pc EXCEPT ![p] = "create_log"]
                 /\ ret' = [ret EXCEPT ![p] = NoResult]
    /\ UNCHANGED <<history, last_writer, mutations>>

create_log(p) ==
    /\ pc[p] = "create_log"
    /\ ~Locked(p)
    /\ txn' = Commit(p)
    /\ \E now \in Readings :
         /\ clock' = now
         /\ history' = log_change(history, now, lastrowid[p][1], call[p].found_by[1],
                                  NULL, NULL, Some("New"), Some("Defect created"))
    /\ ret' = [ret EXCEPT ![p] = ReturnedId(lastrowid[p][1])]
    /\ pc' = [pc EXCEPT ![p] = "idle"]
    /\ UNCHANGED mutations
    /\ UNCHANGED <<defects, seq, call, result, lastrowid, pre, last_writer, calls>>

(* update_status: SELECT, then UPDATE + commit, then _log_change + commit *)

status_select(p, defect_id, new_status, changed_by, comment) ==
    /\ CanCall(p)
    /\ calls' = calls + 1
    /\ pre' = [pre EXCEPT ![p] = Snapshot]
    /\ call' = [call EXCEPT ![p] =
                   [op |-> "update_status", no |-> calls + 1, defect_id |-> defect_id,
                    new_status |-> new_status, changed_by |-> changed_by,
                    comment |-> comment]]
    /\ LET fetched == SelectStatus(defects, defect_id) IN
         /\ result' = [result EXCEPT ![p] = fetched]
         /\ IF fetched = NULL
            THEN /\ ret' = [ret EXCEPT ![p] = Returned(FALSE)]
                 /\ UNCHANGED pc
            ELSE /\ ret' = [ret EXCEPT ![p] = NoResult]
                 /\ pc' = [pc EXCEPT ![p] = "status_update"]
    /\ UNCHANGED <<defects, seq, history, clock, lastrowid, last_writer, mutations,
                   txn>>

status_update(p) ==
    /\ pc[p] = "status_update"
    /\ ~Locked(p)
    /\ txn' = Commit(p)
    /\ LET new_status == call[p].new_status IN
         IF new_status \in {"Fixed", "Verified", "Closed"}
         THEN \E now \in Readings :
                /\ clock' = now
                /\ defects' = StatusUpdate(defects, call[p].defect_id, new_status, now)
         ELSE /\ defects' = StatusUpdate(defects, call[p].defect_id, new_status, clock)
              /\ UNCHANGED clock
    /\ last_writer' = Writer(call[p].defect_id, p)
    /\ pc' = [pc EXCEPT ![p] = "status_log"]
    /\ UNCHANGED <<seq, history, call, result, lastrowid, ret, pre, mutations, calls>>

status_log(p) ==
    /\ pc[p] = "status_log"
    /\ ~Locked(p)
    /\ txn' = Commit(p)
    /\ \E now \in Readings :
         /\ clock' = now
         /\ history' = log_change(history, now, call[p].defect_id, call[p].changed_by,
                                  Some("status"), Some(result[p][1][1]),
                                  Some(call[p].new_status), call[p].comment)
    /\ ret' = [ret EXCEPT ![p] = Returned(TRUE)]
    /\ pc' = [pc EXCEPT ![p] = "idle"]
    /\ mutations' = Counted(p, call[p].defect_id)
    /\ UNCHANGED <<defects, seq, call, result, lastrowid, pre, last_writer, calls>>

update_status(p, statuses) ==
    \/ \E defect_id \in IdArgs, new_status \in statuses :
           status_select(p, defect_id, new_status, "qa", NULL)
    \/ status_update(p)
    \/ status_log(p)

(* assign_defect: SELECT, then UPDATE + commit, then _log_change + commit *)

assign_select(p, defect_id, assignee, assigned_by, comment) ==
    /\ CanCall(p)
    /\ calls' = calls + 1
    /\ pre' = [pre EXCEPT ![p] = Snapshot]
    /\ call' = [call EXCEPT ![p] =
                   [op |-> "assign_defect", no |-> calls + 1, defect_id |-> defect_id,
                    assignee |-> assignee, assigned_by |-> assigned_by,
                    comment |-> comment]]
    /\ LET fetched == SelectAssignment(defects, defect_id) IN
         /\ result' = [result EXCEPT ![p] = fetched]
         /\ IF fetched = NULL
            THEN /\ ret' = [ret EXCEPT ![p] = Returned(FALSE)]
                 /\ UNCHANGED pc
            ELSE /\ ret' = [ret EXCEPT ![p] = NoResult]
                 /\ pc' = [pc EXCEPT ![p] = "assign_update"]
    /\ UNCHANGED <<defects, seq, history, clock, lastrowid, last_writer, mutations,
                   txn>>

assign_update(p) ==
    /\ pc[p] = "assign_update"
    /\ ~Locked(p)
    /\ txn' = Commit(p)
    /\ defects' = AssignUpdate(defects, call[p].defect_id, call[p].assignee,
                               result[p][1][2])
    /\ last_writer' = Writer(call[p].defect_id, p)
    /\ pc' = [pc EXCEPT ![p] = "assign_log"]
    /\ UNCHANGED <<seq, history, clock, call, result, lastrowid, ret, pre, mutations, calls>>

assign_log(p) ==
    /\ pc[p] = "assign_log"
    /\ ~Locked(p)
    /\ txn' = Commit(p)
    /\ \E now \in Readings :
         /\ clock' = now
         /\ history' = log_change(history, now, call[p].defect_id, call[p].assigned_by,
                                  Some("assigned_to"), result[p][1][1],
                                  Some(call[p].assignee), call[p].comment)
    /\ ret' = [ret EXCEPT ![p] = Returned(TRUE)]
    /\ pc' = [pc EXCEPT ![p] = "idle"]
    /\ mutations' = Counted(p, call[p].defect_id)
    /\ UNCHANGED <<defects, seq, call, result, lastrowid, pre, last_writer, calls>>

assign_defect(p) ==
    \/ \E defect_id \in IdArgs, assignee \in AssigneeArgs :
           assign_select(p, defect_id, assignee, "lead", NULL)
    \/ assign_update(p)
    \/ assign_log(p)

(* add_resolution: UPDATE + commit, then _log_change + commit if resolved_by *)

resolution_update(p, defect_id, resolution, root_cause, resolved_by) ==
    /\ CanCall(p)
    /\ calls' = calls + 1
    /\ pre' = [pre EXCEPT ![p] = Snapshot]
    /\ call' = [call EXCEPT ![p] =
                   [op |-> "add_resolution", no |-> calls + 1, defect_id |-> defect_id,
                    resolution |-> resolution, root_cause |-> root_cause,
                    resolved_by |-> resolved_by]]
    /\ result' = [result EXCEPT ![p] = NULL]
    /\ IF Locked(p)
       THEN \* database is locked
            /\ ret' = [ret EXCEPT ![p] = Raised("OperationalError")]
            /\ txn' = Refused(p)
            /\ UNCHANGED <<defects, last_writer, pc, mutations>>
       ELSE /\ txn' = Commit(p)
            /\ defects' = ResolutionUpdate(defects, defect_id, resolution, root_cause)
            /\ last_writer' = Writer(defect_id, p)
            /\ IF Truthy(resolved_by)
               THEN /\ pc' = [pc EXCEPT ![p] = "resolution_log"]
                    /\ ret' = [ret EXCEPT ![p] = NoResult]
                    /\ UNCHANGED mutations
               ELSE /\ ret' = [ret EXCEPT ![p] = Returned(TRUE)]
                    /\ mutations' = IF defect_id \in DOMAIN defects
                                    THEN [mutations EXCEPT ![defect_id] = @ + 1]
                                    ELSE mutations
                    /\ UNCHANGED pc
    /\ UNCHANGED <<seq, history, clock, lastrowid>>

resolution_log(p) ==
    /\ pc[p] = "resolution_log"
    /\ ~Locked(p)
    /\ txn' = Commit(p)
    /\ \E now \in Readings :
         /\ clock' = now
         /\ history' = log_change(history, now, call[p].defect_id,
                                  call[p].resolved_by[1], Some("resolution"), NULL,
                                  Some(call[p].resolution),
                                  Some(RootCauseComment(call[p].root_cause)))
    /\ ret' = [ret EXCEPT ![p] = Returned(TRUE)]
    /\ pc' = [pc EXCEPT ![p] = "idle"]
    /\ mutations' = Counted(p, call[p].defect_id)
    /\ UNCHANGED <<defects, seq, call, result, lastrowid, pre, last_writer, calls>>

add_resolution(p, root_causes, resolved_bys) ==
    \/ \E defect_id \in IdArgs, root_cause \in root_causes,
          resolved_by \in resolved_bys :
           resolution_update(p, defect_id, "patched", root_cause, resolved_by)
    \/ resolution_log(p)

create_defect(p, titles, severities, priorities, found_bys) ==
    \/ /\ seq < MaxDefects
       /\ \E title \in titles, severity \in severities, priority \in priorities,
             found_by \in found_bys :
              create_insert(p, title, Some("steps"), severity, priority, found_by,
                            NULL, <<>>)
    \/ create_log(p)

\* create_defect with a module, on a table of up to MaxRows rows
create_defect_module(p, titles, severities, found_bys, modules) ==
    \/ \E title \in titles, severity \in severities, found_by \in found_bys,
          module \in modules :
           create_insert(p, title, Some("steps"), severity, Some(3), found_by,
                         module, <<>>)
    \/ create_log(p)

(* search_defects: one SELECT *)

\* the stored value of a column: NULL or Some(v)
Column(row, key) ==
    IF key \in {"assigned_to", "module"} THEN row[key] ELSE Some(row[key])

\* column = ? in a WHERE clause: a comparison with NULL on either side is
\* not true
SqlEquals(stored, param) == stored # NULL /\ param # NULL /\ stored = param

\* the WHERE clause built from the keys present in criteria
Where(row, criteria) ==
    \A key \in SearchKeys :
        criteria[key] = NULL \/ SqlEquals(Column(row, key), criteria[key][1])

\* fetchall() of the SELECT, a table scan in rowid order from row id on, each
\* row as dict(zip(columns, row))
RECURSIVE SelectFrom(_, _, _)
SelectFrom(table, criteria, id) ==
    IF \A d \in DOMAIN table : d < id THEN <<>>
    ELSE IF id \in DOMAIN table /\ Where(table[id], criteria)
         THEN <<[id |-> id, row |-> table[id]]>> \o SelectFrom(table, criteria, id + 1)
         ELSE SelectFrom(table, criteria, id + 1)

\* SELECT * FROM defects WHERE 1=1 [AND column = ?]...
SelectWhere(table, criteria) == SelectFrom(table, criteria, 1)

search_defects(p, criteria) ==
    /\ CanCall(p)
    /\ calls' = calls + 1
    /\ pre' = [pre EXCEPT ![p] = Snapshot]
    /\ call' = [call EXCEPT ![p] =
                   [op |-> "search_defects", no |-> calls + 1, criteria |-> criteria]]
    /\ result' = [result EXCEPT ![p] = NULL]
    /\ ret' = [ret EXCEPT ![p] = ReturnedRows(SelectWhere(defects, criteria))]
    /\ UNCHANGED <<defects, seq, history, clock, pc, lastrowid, last_writer,
                   mutations, txn>>

(* get_metrics: six SELECTs, which no write of another connection separates *)
(* when the caller is the only connection                                   *)

\* GROUP BY that reports every value once, without counting its rows
GroupPresence(table, key) ==
    [v \in {table[d][key] : d \in DOMAIN table} |-> 1]

\* SELECT key, COUNT(*) FROM defects GROUP BY key
GroupCount(table, key) ==
    [v \in {table[d][key] : d \in DOMAIN table} |->
        Cardinality({d \in DOMAIN table : table[d][key] = v})]

\* the loop that renames the groups of by_severity
BySeverity(groups) ==
    [n \in {SeverityName(sev) : sev \in DOMAIN groups} |->
        groups[CHOOSE sev \in DOMAIN groups : SeverityName(sev) = n]]

\* the loop that renames the groups of by_priority
ByPriority(groups) ==
    [n \in {PriorityName(pri) : pri \in DOMAIN groups} |->
        groups[CHOOSE pri \in DOMAIN groups : PriorityName(pri) = n]]

\* SELECT module, COUNT(*) FROM defects WHERE module IS NOT NULL GROUP BY module
ByModule(table) ==
    LET rows == {d \in DOMAIN table : table[d].module # NULL} IN
    [m \in {table[d].module[1] : d \in rows} |->
        Cardinality({d \in rows : table[d].module[1] = m})]

\* the rows of WHERE status = 'Closed' AND closed_date IS NOT NULL
ClosedRows(table) ==
    {d \in DOMAIN table : table[d].status = "Closed" /\ table[d].closed_date # NULL}

\* the sum over rows of julianday(closed_date) - julianday(found_date); one
\* unit of the clock is one day
RECURSIVE DaysOpen(_, _)
DaysOpen(table, rows) ==
    IF rows = {} THEN 0
    ELSE LET d == CHOOSE e \in rows : TRUE IN
         (table[d].closed_date[1] - table[d].found_date) + DaysOpen(table, rows \ {d})

\* round(total / count, 1), in tenths of a day (a tie goes to the even tenth)
RoundTenths(total, count) ==
    LET q == (10 * total) \div count
        r == (10 * total) % count
    IN IF 2 * r < count THEN q
       ELSE IF 2 * r > count THEN q + 1
       ELSE IF q % 2 = 0 THEN q ELSE q + 1

\* round(result[0], 1) if result[0] else None: AVG over no row is NULL, and
\* NULL and 0.0 are both false
AvgResolutionDays(table) ==
    LET rows == ClosedRows(table) IN
    IF rows = {} \/ DaysOpen(table, rows) = 0 THEN NULL
    ELSE Some(RoundTenths(DaysOpen(table, rows), Cardinality(rows)))

get_metrics(p) ==
    /\ CanCall(p)
    /\ calls' = calls + 1
    /\ pre' = [pre EXCEPT ![p] = Snapshot]
    /\ call' = [call EXCEPT ![p] = [op |-> "get_metrics", no |-> calls + 1]]
    /\ result' = [result EXCEPT ![p] = NULL]
    /\ ret' = [ret EXCEPT ![p] =
                  ReturnedMetrics(
                           [by_status |-> GroupCount(defects, "status"),
                            by_severity |-> BySeverity(GroupCount(defects, "severity")),
                            by_priority |-> ByPriority(GroupCount(defects, "priority")),
                            avg_resolution_days |-> AvgResolutionDays(defects),
                            by_module |-> ByModule(defects),
                            reopened_count |->
                                Cardinality({d \in DOMAIN defects :
                                                defects[d].status = "Reopened"})])]
    /\ UNCHANGED <<defects, seq, history, clock, pc, lastrowid, last_writer,
                   mutations, txn>>

\* a storage failure (OperationalError) in the statement the call executes
\* next, or the death of the caller there: the statement has no effect and
\* the call ends without executing the rest of the method
StoreError(p) ==
    /\ pc[p] # "idle"
    /\ pc' = [pc EXCEPT ![p] = "idle"]
    /\ ret' = [ret EXCEPT ![p] = Raised("StoreError")]
    /\ UNCHANGED <<defects, seq, history, clock, call, result, lastrowid, pre,
                   last_writer, mutations, calls, txn>>

\* sqlite3.OperationalError (database is locked): the UPDATE or INSERT the
\* call executes next has waited out the busy timeout while another
\* connection holds the write lock; the call ends there
Busy(p) ==
    /\ pc[p] # "idle"
    /\ Locked(p)
    /\ pc' = [pc EXCEPT ![p] = "idle"]
    /\ ret' = [ret EXCEPT ![p] = Raised("OperationalError")]
    /\ txn' = Refused(p)
    /\ UNCHANGED <<defects, seq, history, clock, call, result, lastrowid, pre,
                   last_writer, mutations, calls>>

----------------------------------------------------------------------------
(* Specifications *)

\* the other connections are between calls
Alone(p) == \A q \in Procs \ {p} : Idle(q)

\* any number of connections, their statements interleaved
Next ==
    \E p \in Procs :
        \/ create_defect(p, {Some("crash on save")}, {Some(2)}, {Some(3)}, FoundByArgs)
        \/ update_status(p, StatusArgs)
        \/ assign_defect(p)
        \/ add_resolution(p, {NULL}, {NULL, Some("dev")})
        \/ Busy(p)

Spec == Init /\ [][Next]_vars

\* two connections that create defects, assign them and mark them fixed
AssignNext ==
    \E p \in Procs :
        \/ create_defect(p, {Some("crash on save")}, {Some(2)}, {Some(3)}, {Some("qa")})
        \/ update_status(p, {"Fixed"})
        \/ assign_defect(p)

AssignSpec == Init /\ [][AssignNext]_vars

\* calls made one at a time over one connection, with every status
SeqNext ==
    \/ create_defect("c1", TitleArgs, SeverityArgs, PriorityArgs, FoundByArgs)
    \/ update_status("c1", DefectStatus)
    \/ assign_defect("c1")
    \/ add_resolution("c1", RootCauseArgs, ResolvedByArgs)

SeqSpec == Init /\ [][SeqNext]_vars

\* calls made one at a time over one connection; any statement after the
\* first of a call may fail
FaultNext ==
    \/ create_defect("c1", TitleArgs, SeverityArgs, PriorityArgs, FoundByArgs)
    \/ update_status("c1", StatusArgs)
    \/ assign_defect("c1")
    \/ add_resolution("c1", RootCauseArgs, ResolvedByArgs)
    \/ StoreError("c1")

FaultSpec == Init /\ [][FaultNext]_vars

\* one connection that fills the table, moves and assigns the defects, and
\* reads them back
QueryNext ==
    \/ create_defect_module("c1", {Some("crash on save")}, {Some(1), Some(2)},
                            {Some("qa")}, {NULL, Some("ui")})
    \/ update_status("c1", {"Closed", "Reopened"})
    \/ \E assignee \in {"alice"} : assign_select("c1", 1, assignee, "lead", NULL)
    \/ assign_update("c1")
    \/ assign_log("c1")
    \/ \E criteria \in CriteriaArgs : search_defects("c1", criteria)
    \/ get_metrics("c1")

QuerySpec == Init /\ [][QueryNext]_vars

\* the person a connection reports defects as
Reporter(p) == IF p = "c1" THEN "qa" ELSE "dev"

\* two connections that create defects, each under its own name, and close them
CreateNext ==
    \E p \in Procs :
        \/ create_defect_module(p, TitleArgs, {Some(2)}, {Some(Reporter(p))}, {NULL})
        \/ update_status(p, {"Closed"})
        \/ Busy(p)

CreateSpec == Init /\ [][CreateNext]_vars

\* the store after create_defect has been called, one call at a time, for
\* every id a caller may pass
StoredInit ==
    /\ defects = [d \in IdArgs |->
                     NewRow(Some("crash on save"), Some("steps"), Some(2), Some(3),
                            NULL, Some("qa"), 0, <<>>)]
    /\ seq = Cardinality(IdArgs)
    /\ history = [d \in IdArgs |->
                     log_change(<<>>, 0, d, "qa", NULL, NULL, Some("New"),
                                Some("Defect created"))[1]]
    /\ clock = 0
    /\ pc = [p \in Procs |-> "idle"]
    /\ call = [p \in Procs |-> NoCall]
    /\ result = [p \in Procs |-> NULL]
    /\ lastrowid = [p \in Procs |-> NULL]
    /\ ret = [p \in Procs |-> NoResult]
    /\ pre = [p \in Procs |-> Snapshot]
    /\ last_writer = [d \in IdArgs |-> NULL]
    /\ mutations = [d \in IdArgs |-> 0]
    /\ calls = 0
    /\ txn = [p \in Procs |-> "none"]

\* two connections that mutate the stored defects, their statements
\* interleaved: one marks defects fixed, the other assigns them
ParallelNext ==
    \/ update_status("c1", {"Fixed"})
    \/ \E defect_id \in IdArgs : assign_select("c2", defect_id, "alice", "lead", NULL)
    \/ assign_update("c2")
    \/ assign_log("c2")

ParallelSpec == StoredInit /\ [][ParallelNext]_vars

\* the statement a running call of connection p executes next, or its refusal
Continue(p) ==
    \/ create_log(p)
    \/ status_update(p)
    \/ status_log(p)
    \/ Busy(p)

\* the creators and closers of CreateSpec under fair scheduling: a thread
\* inside a method is not starved, so the next statement of a running call is
\* eventually executed (or refused by the lock); nothing obliges a caller to
\* make another call (every such step changes pc)
FairSpec == CreateSpec /\ \A p \in Procs : WF_pc(Continue(p))

----------------------------------------------------------------------------
(* Properties *)

\* the rowids of the history entries of defect id
HistoryOf(h, id) == {i \in DOMAIN h : h[i].defect_id = id}

\* connection p has returned from a call of op
Finished(p, op) == Idle(p) /\ call[p].op = op /\ ret[p].kind = "return"

\* C1: after create_defect has returned id d (no concurrent caller), defect d
\* exists with status New, found_date set, fixed_date, verified_date,
\* closed_date and assigned_to unset, and the history holds exactly one entry
\* whose defect_id is d.
CreationInvariant ==
    \A p \in Procs :
        Finished(p, "create_defect") =>
            LET d == ret[p].id IN
            /\ d \in DOMAIN defects
            /\ defects[d].status = "New"
            /\ defects[d].found_date \in 0..MaxTime
            /\ defects[d].fixed_date = NULL
            /\ defects[d].verified_date = NULL
            /\ defects[d].closed_date = NULL
            /\ defects[d].assigned_to = NULL
            /\ Cardinality(HistoryOf(history, d)) = 1

\* C2: after N successful mutating calls made one at a time against an
\* existing defect d (update_status, assign_defect, add_resolution with or
\* without resolved_by), the history holds exactly N+1 entries for d, their
\* change_date non-decreasing in insertion order.
AuditPairing ==
    \A d \in DOMAIN defects :
        (\A p \in Procs : Idle(p)) =>
            /\ Cardinality(HistoryOf(history, d)) = mutations[d] + 1
            /\ \A i, j \in HistoryOf(history, d) :
                   i < j => history[i].change_date <= history[j].change_date

\* C3: once fixed_date (verified_date, closed_date) of a defect is set, no
\* later operation changes it.
DateOnce ==
    [][\A d \in DOMAIN defects :
          /\ defects[d].fixed_date # NULL =>
                 defects'[d].fixed_date = defects[d].fixed_date
          /\ defects[d].verified_date # NULL =>
                 defects'[d].verified_date = defects[d].verified_date
          /\ defects[d].closed_date # NULL =>
                 defects'[d].closed_date = defects[d].closed_date]_vars

\* C4: update_status and assign_defect called (no concurrent caller) with
\* an id that is not in the defects table return False and leave the defects
\* table and the history table as they were.
NotFoundNoWrite ==
    \A p \in Procs :
        (/\ Idle(p)
         /\ call[p].op \in {"update_status", "assign_defect"}
         /\ call[p].defect_id \notin DOMAIN pre[p].defects)
        => /\ ret[p] = Returned(FALSE)
           /\ defects = pre[p].defects
           /\ history = pre[p].history

\* C4 witness: assign_defect has returned False for an id that the store,
\* which holds a defect and its history, does not hold
NotFoundReturned ==
    /\ Finished("c1", "assign_defect")
    /\ call["c1"].defect_id \notin DOMAIN defects
    /\ ret["c1"].value = FALSE
    /\ DOMAIN defects # {}
    /\ history # <<>>

\* C5: add_resolution issued (no concurrent caller) with an id that is not
\* in the defects table reports NotFound and writes nothing, with or without
\* resolved_by.
ResolutionNotFound ==
    \A p \in Procs :
        (/\ Idle(p)
         /\ call[p].op = "add_resolution"
         /\ call[p].defect_id \notin DOMAIN pre[p].defects)
        => /\ ret[p] = Returned(FALSE)
           /\ defects = pre[p].defects
           /\ history = pre[p].history

\* C6: while update_status or assign_defect has committed the new value of
\* the defect row, the history entry of that call is in the history table.
AtomicPairing ==
    \A p \in Procs :
        LET Logged(field, value, by) ==
                \E i \in (Len(pre[p].history) + 1)..Len(history) :
                    /\ history[i].defect_id = call[p].defect_id
                    /\ history[i].field_changed = Some(field)
                    /\ history[i].new_value = Some(value)
                    /\ history[i].changed_by = by
        IN
        /\ (/\ pc[p] = "status_log"
            /\ defects[call[p].defect_id].status = call[p].new_status)
           => Logged("status", call[p].new_status, call[p].changed_by)
        /\ (/\ pc[p] = "assign_log"
            /\ defects[call[p].defect_id].assigned_to = Some(call[p].assignee))
           => Logged("assigned_to", call[p].assignee, call[p].assigned_by)

\* C7: after a call has failed at any of its statements, the defects table
\* and the history table are as they were when the call was issued.
AllOrNothing ==
    \A p \in Procs :
        (Idle(p) /\ ret[p].kind = "raise" /\ ret[p].exc = "StoreError")
        => defects = pre[p].defects /\ history = pre[p].history

\* the last calls of p and q ran concurrently: one was issued while the
\* other was in progress
Overlap(p, q) == call[p].no \in pre[q].running \/ call[q].no \in pre[p].running

\* both connections have returned from assign_defect calls on the same
\* defect that ran concurrently
BothAssigned(p, q) ==
    /\ p # q
    /\ Finished(p, "assign_defect") /\ ret[p].value = TRUE
    /\ Finished(q, "assign_defect") /\ ret[q].value = TRUE
    /\ call[p].defect_id = call[q].defect_id
    /\ Overlap(p, q)

\* C8: once two concurrent assign_defect calls on the same defect have both
\* returned, the history holds exactly two entries more than when the later
\* of them was issued, both for that defect and one for each call, and
\* assigned_to is the assignee of the call whose UPDATE committed last.
ConcurrentAssign ==
    \A p, q \in Procs :
        BothAssigned(p, q) =>
            LET d == call[p].defect_id
                a == Len(pre[p].history)
                b == Len(pre[q].history)
                h0 == IF a < b THEN b ELSE a
            IN
            /\ Len(history) = h0 + 2
            /\ \A i \in (h0 + 1)..Len(history) :
                   /\ history[i].defect_id = d
                   /\ history[i].field_changed = Some("assigned_to")
            /\ \E x, y \in {p, q} :
                   /\ x # y
                   /\ history[h0 + 1].new_value = Some(call[x].assignee)
                   /\ history[h0 + 1].changed_by = call[x].assigned_by
                   /\ history[h0 + 2].new_value = Some(call[y].assignee)
                   /\ history[h0 + 2].changed_by = call[y].assigned_by
            /\ last_writer[d] # NULL
            /\ defects[d].assigned_to = Some(call[last_writer[d][1]].assignee)

\* C8 witness: two concurrent assign_defect calls with different assignees,
\* both of which read status New, have returned
ConcurrentAssignOnNew ==
    /\ BothAssigned("c1", "c2")
    /\ call["c1"].assignee # call["c2"].assignee
    /\ result["c1"][1][2] = "New"
    /\ result["c2"][1][2] = "New"

\* C9: two concurrent update_status calls on the same defect do not
\* interleave: when a call writes the row, the status it read (the old_value
\* of its history entry) is the status stored in the row.
SerializedStatus ==
    [][\A p \in Procs :
          (/\ status_update(p)
           /\ \A q \in Procs \ {p} :
                  /\ call[q].op = "update_status"
                  /\ call[q].defect_id = call[p].defect_id)
          => result[p][1][1] = defects[call[p].defect_id].status]_vars

\* C10: update_status on an existing defect (calls made one at a time)
\* returns True and leaves the defect with the status asked for, whatever
\* the status before and the status asked for.
PermissiveTransitions ==
    \A p \in Procs :
        (/\ Idle(p)
         /\ call[p].op = "update_status"
         /\ call[p].defect_id \in DOMAIN pre[p].defects)
        => /\ ret[p] = Returned(TRUE)
           /\ defects[call[p].defect_id].status = call[p].new_status

\* C10 witness: a Closed defect has been moved to Open
ReopenedFromClosed ==
    /\ Finished("c1", "update_status")
    /\ call["c1"].defect_id \in DOMAIN pre["c1"].defects
    /\ pre["c1"].defects[call["c1"].defect_id].status = "Closed"
    /\ call["c1"].new_status = "Open"
    /\ defects[call["c1"].defect_id].status = "Open"

\* h is g with exactly one more row
OneMore(g, h) == Len(h) = Len(g) + 1 /\ SubSeq(h, 1, Len(g)) = g

\* C11: assign_defect on an existing defect (calls made one at a time)
\* returns True, sets assigned_to to the assignee, moves the status to
\* Assigned if and only if the status before the call was New and otherwise
\* leaves it as it was, and appends exactly one history entry.
AssignContract ==
    \A p \in Procs :
        (/\ Idle(p)
         /\ call[p].op = "assign_defect"
         /\ call[p].defect_id \in DOMAIN pre[p].defects)
        => LET d == call[p].defect_id
               before == pre[p].defects[d]
           IN
           /\ ret[p] = Returned(TRUE)
           /\ defects[d].assigned_to = Some(call[p].assignee)
           /\ (defects[d].status = "Assigned" /\ before.status # "Assigned")
                  <=> before.status = "New"
           /\ before.status # "New" => defects[d].status = before.status
           /\ OneMore(pre[p].history, history)
           /\ history[Len(history)].defect_id = d
           /\ history[Len(history)].field_changed = Some("assigned_to")

\* C11 witness: a Closed defect has been assigned and is still Closed
AssignedWhileClosed ==
    /\ Finished("c1", "assign_defect")
    /\ call["c1"].defect_id \in DOMAIN pre["c1"].defects
    /\ pre["c1"].defects[call["c1"].defect_id].status = "Closed"
    /\ defects[call["c1"].defect_id].status = "Closed"
    /\ defects[call["c1"].defect_id].assigned_to = Some(call["c1"].assignee)

SameStatusTwice ==
    \A p \in Procs :
        (/\ Idle(p)
         /\ call[p].op = "update_status"
         /\ call[p].defect_id \in DOMAIN pre[p].defects
         /\ pre[p].defects[call[p].defect_id].status = call[p].new_status
         /\ pre[p].history # <<>>
         /\ LET first == pre[p].history[Len(pre[p].history)] IN
                /\ first.defect_id = call[p].defect_id
                /\ first.field_changed = Some("status")
                /\ first.new_value = Some(call[p].new_status))
        => LET d == call[p].defect_id
               X == call[p].new_status
               n == Len(history)
           IN
           /\ ret[p] = Returned(TRUE)
           /\ OneMore(pre[p].history, history)
           /\ \A i \in {n - 1, n} :
                  /\ history[i].defect_id = d
                  /\ history[i].field_changed = Some("status")
                  /\ history[i].new_value = Some(X)
           /\ history[n].old_value = Some(X)
           /\ defects[d].status = X

\* C13 witness: Deferred has been asked for twice in a row and the history
\* holds the creation entry and the two status entries
DeferredTwice ==
    /\ Finished("c1", "update_status")
    /\ call["c1"].new_status = "Deferred"
    /\ Len(history) = 3
    /\ history[2].new_value = Some("Deferred")
    /\ history[3].old_value = Some("Deferred")
    /\ history[3].new_value = Some("Deferred")

\* C14: search_defects returns exactly the defects whose stored value equals
\* the value given for every criterion passed, whatever the criteria and
\* their values (None included), and every defect when none is passed.
SearchExact ==
    \A p \in Procs :
        (Idle(p) /\ call[p].op = "search_defects")
        => LET found == ret[p].rows
               criteria == call[p].criteria
           IN
           /\ {found[i].id : i \in DOMAIN found} =
                  {d \in DOMAIN defects :
                      \A key \in SearchKeys :
                          criteria[key] # NULL =>
                              Column(defects[d], key) = criteria[key][1]}
           /\ \A i \in DOMAIN found : found[i].row = defects[found[i].id]

\* the sum of the counts of a metric
RECURSIVE Total(_)
Total(counts) ==
    IF DOMAIN counts = {} THEN 0
    ELSE LET k == CHOOSE x \in DOMAIN counts : TRUE IN
         counts[k] + Total([x \in DOMAIN counts \ {k} |-> counts[x]])

\* C15: get_metrics returns exact counts over the current rows: by_status,
\* by_severity and by_priority map each value held by a defect to the number
\* of defects holding it (each map sums to the number of defects), by_module
\* does so over the defects with a module, and reopened_count is the number
\* of defects whose status is Reopened now.
MetricsExact ==
    \A p \in Procs :
        (Idle(p) /\ call[p].op = "get_metrics")
        => LET m == ret[p].metrics
               Holding(key, v) == {d \in DOMAIN defects : defects[d][key] = v}
               WithModule(v) == {d \in DOMAIN defects : defects[d].module = Some(v)}
           IN
           /\ DOMAIN m.by_status = {v \in DefectStatus : Holding("status", v) # {}}
           /\ \A v \in DOMAIN m.by_status :
                  m.by_status[v] = Cardinality(Holding("status", v))
           /\ DOMAIN m.by_severity =
                  {SeverityName(v) : v \in {w \in DefectSeverity : Holding("severity", w) # {}}}
           /\ \A v \in DefectSeverity :
                  Holding("severity", v) # {} =>
                      m.by_severity[SeverityName(v)] = Cardinality(Holding("severity", v))
           /\ DOMAIN m.by_priority =
                  {PriorityName(v) : v \in {w \in DefectPriority : Holding("priority", w) # {}}}
           /\ \A v \in DefectPriority :
                  Holding("priority", v) # {} =>
                      m.by_priority[PriorityName(v)] = Cardinality(Holding("priority", v))
           /\ Total(m.by_status) = Cardinality(DOMAIN defects)
           /\ Total(m.by_severity) = Cardinality(DOMAIN defects)
           /\ Total(m.by_priority) = Cardinality(DOMAIN defects)
           /\ DOMAIN m.by_module = {v \in {"ui"} : WithModule(v) # {}}
           /\ \A v \in DOMAIN m.by_module : m.by_module[v] = Cardinality(WithModule(v))
           /\ m.reopened_count =
                  Cardinality({d \in DOMAIN defects : defects[d].status = "Reopened"})

\* C15 witness: get_metrics has counted two defects of severity MAJOR, one of
\* them in module ui and the other in none
TwoMajorCounted ==
    /\ Finished("c1", "get_metrics")
    /\ Cardinality(DOMAIN defects) = 2
    /\ ret["c1"].metrics.by_severity = [n \in {"MAJOR"} |-> 2]
    /\ ret["c1"].metrics.by_status = [n \in {"New"} |-> 2]
    /\ ret["c1"].metrics.by_module = [n \in {"ui"} |-> 1]

\* C16: avg_resolution_days of get_metrics is None when no defect is Closed
\* with closed_date set, and otherwise is a number, the mean of closed_date -
\* found_date in days over exactly the Closed defects (here in tenths of a
\* day: avg * count = 10 * sum).
AvgResolutionExact ==
    \A p \in Procs :
        (Idle(p) /\ call[p].op = "get_metrics")
        => LET avg == ret[p].metrics.avg_resolution_days
               rows == {d \in DOMAIN defects : /\ defects[d].status = "Closed"
                                               /\ defects[d].closed_date # NULL}
           IN IF rows = {} THEN avg = NULL
              ELSE /\ avg # NULL
                   /\ avg[1] * Cardinality(rows) = 10 * DaysOpen(defects, rows)

\* C17: ids are generated by the store, increase in creation order and are
\* never reused: a row that appears has an id above every id in the table,
\* no row loses its id, and a create_defect that returns hands back the id of
\* the row it inserted itself, an id no create_defect has returned before.
FreshIds ==
    [][/\ \A d \in DOMAIN defects' \ DOMAIN defects :
              /\ \A e \in DOMAIN defects : e < d
              /\ d > seq
       /\ \A d \in DOMAIN defects :
              /\ d \in DOMAIN defects'
              /\ defects'[d].found_by = defects[d].found_by
              /\ defects'[d].found_date = defects[d].found_date
       /\ \A p \in Procs :
              (pc[p] = "create_log" /\ ret'[p].kind = "return")
              => LET id == ret'[p].id IN
                 /\ id \in DOMAIN defects
                 /\ id \notin DOMAIN pre[p].defects
                 /\ defects[id].found_by = call[p].found_by[1]
                 /\ \A i \in DOMAIN history :
                        history[i].field_changed = NULL => history[i].defect_id # id]_vars

\* C17 witness: two create_defect calls that ran concurrently have returned
\* ids 1 and 2, the call that inserted first having logged and returned last
ConcurrentCreators ==
    /\ Finished("c1", "create_defect")
    /\ Finished("c2", "create_defect")
    /\ Overlap("c1", "c2")
    /\ ret["c1"].id = 1
    /\ ret["c2"].id = 2
    /\ Len(history) = 2
    /\ history[1].defect_id = 2
    /\ history[2].defect_id = 1

\* C18: create_defect called (no concurrent caller) without a title, a
\* found_by, a severity or a priority fails with an error, and the defects
\* table and the history table are as they were before the call.
ValidationFirst ==
    \A p \in Procs :
        (/\ Idle(p)
         /\ call[p].op = "create_defect"
         /\ NULL \in {call[p].title, call[p].found_by, call[p].severity, call[p].priority})
        => /\ ret[p].kind = "raise"
           /\ defects = pre[p].defects
           /\ history = pre[p].history

\* C18 witness: a create_defect without found_by has failed after the
\* sequence of calls had already written to the store
MissingFoundByRejected ==
    /\ Idle("c1")
    /\ call["c1"].op = "create_defect"
    /\ call["c1"].found_by = NULL
    /\ call["c1"].title # NULL /\ call["c1"].severity # NULL /\ call["c1"].priority # NULL
    /\ ret["c1"].kind = "raise"
    /\ history # <<>>

\* C19: in every committed state, the intermediate states of a running
\* create_defect included, every row of the defects table has at least one
\* history entry.
CreationEntryPresent ==
    \A d \in DOMAIN defects : HistoryOf(history, d) # {}

\* C20: no operation removes a defect row, and no operation removes or
\* changes a history entry: the history before a step is a prefix of the
\* history after it.
AppendOnly ==
    [][/\ DOMAIN defects \subseteq DOMAIN defects'
       /\ Len(history) <= Len(history')
       /\ SubSeq(history', 1, Len(history)) = history]_vars

\* C20 witness: a Rejected defect has been given a resolution: its row and
\* the three entries of its history are in the store
RejectedStillStored ==
    /\ Finished("c1", "add_resolution")
    /\ call["c1"].defect_id \in DOMAIN defects
    /\ defects[call["c1"].defect_id].status = "Rejected"
    /\ Len(history) = 3
    /\ history[2].new_value = Some("Rejected")

\* the column a tracked mutation is about
PrimaryField(op) ==
    CASE op = "update_status" -> "status"
      [] op = "assign_defect" -> "assigned_to"
      [] op = "add_resolution" -> "resolution"

\* the value of that column in a row, as the history stores it
PrimaryValue(row, op) ==
    IF op = "update_status" THEN Some(row.status) ELSE row[PrimaryField(op)]

\* C21: the history entry appended by a tracked mutation made without
\* concurrent callers (update_status, assign_defect, add_resolution with
\* resolved_by) names the primary field changed, its old_value is the value
\* the field held immediately before the call and its new_value the value it
\* holds immediately after, a second add_resolution included.
OldNewRecorded ==
    \A p \in Procs :
        (/\ Idle(p)
         /\ call[p].op \in {"update_status", "assign_defect", "add_resolution"}
         /\ ret[p] = Returned(TRUE)
         /\ call[p].op = "add_resolution" => Truthy(call[p].resolved_by)
         /\ call[p].defect_id \in DOMAIN pre[p].defects)
        => LET d == call[p].defect_id
               entry == history[Len(history)]
           IN /\ Len(history) = Len(pre[p].history) + 1
              /\ entry.defect_id = d
              /\ entry.field_changed = Some(PrimaryField(call[p].op))
              /\ entry.old_value = PrimaryValue(pre[p].defects[d], call[p].op)
              /\ entry.new_value = PrimaryValue(defects[d], call[p].op)

\* the date columns and the status each belongs to
DateFields == {"fixed_date", "verified_date", "closed_date"}

DateState(field) ==
    CASE field = "fixed_date" -> "Fixed"
      [] field = "verified_date" -> "Verified"
      [] field = "closed_date" -> "Closed"

\* C22: a date field is written only by the UPDATE of an update_status call
\* whose target is the state of that field (fixed_date by Fixed,
\* verified_date by Verified, closed_date by Closed); create_defect stores a
\* row without dates, and assign_defect, add_resolution and update_status to
\* any other status leave the three dates as they are.  Hence a date that is
\* set belongs to a defect that has been moved to the state of that date.
DateWriters ==
    /\ [][\A d \in DOMAIN defects' : \A field \in DateFields :
             IF d \notin DOMAIN defects
             THEN defects'[d][field] = NULL
             ELSE defects'[d][field] # defects[d][field]
                  => \E p \in Procs :
                        /\ pc[p] = "status_update" /\ pc'[p] = "status_log"
                        /\ call[p].defect_id = d
                        /\ call[p].new_status = DateState(field)]_vars
    /\ [](\A d \in DOMAIN defects : \A field \in DateFields :
             defects[d][field] # NULL
             => \/ \E i \in HistoryOf(history, d) :
                      /\ history[i].field_changed = Some("status")
                      /\ history[i].new_value = Some(DateState(field))
                \/ \E p \in Procs :
                      /\ pc[p] = "status_log"
                      /\ call[p].defect_id = d
                      /\ call[p].new_status = DateState(field))

\* C22 witness: a defect that was fixed has been reopened: fixed_date is
\* still set, and the two other dates have never been written
FixedDateKept ==
    /\ Finished("c1", "update_status")
    /\ 1 \in DOMAIN defects
    /\ defects[1].status = "Reopened"
    /\ defects[1].fixed_date # NULL
    /\ defects[1].verified_date = NULL
    /\ defects[1].closed_date = NULL

\* the columns create_defect writes and no other method names
CreationFields ==
    {"title", "description", "severity", "priority", "module", "found_by",
     "found_date", "environment", "steps_to_reproduce", "expected_result",
     "actual_result", "test_case_id", "build_version"}

\* C23: no operation changes the creation-time facts of an existing defect:
\* across every step the row keeps its id, found_date, title, description,
\* severity, priority, module, found_by and descriptive creation fields, so
\* after any sequence of update_status, assign_defect and add_resolution
\* calls they are the values create_defect wrote.
CreationFactsKept ==
    [][\A d \in DOMAIN defects :
          /\ d \in DOMAIN defects'
          /\ \A field \in CreationFields : defects'[d][field] = defects[d][field]]_vars

\* C23 witness: a defect created at time 0 has since been assigned and
\* resolved at time 1; its creation facts are those of the create_defect call
AssignedAndResolved ==
    /\ Finished("c1", "add_resolution")
    /\ mutations[1] = 2
    /\ clock = 1
    /\ defects[1].assigned_to # NULL
    /\ defects[1].resolution = Some("patched")
    /\ defects[1].status = "Assigned"
    /\ defects[1].title = "crash on save"
    /\ defects[1].description = Some("steps")
    /\ defects[1].found_by = "qa"
    /\ defects[1].found_date = 0

\* connection p executes a statement of a mutating call on defect id in this step
Acts(p, id) ==
    /\ pc'[p] # pc[p] \/ call'[p] # call[p]
    /\ call'[p].op \in {"update_status", "assign_defect", "add_resolution"}
    /\ call'[p].defect_id = id

\* C24: mutations of different defects are independent: under every
\* interleaving, a step changes the row of defect b, or appends a history
\* entry whose defect_id is b, only if it is a step of a call on b; the
\* entries already stored stay as they are.  A call on another id a
\* therefore leaves the row and the history of b as they would be without it.
Independent ==
    [][\A b \in DOMAIN defects :
          /\ SubSeq(history', 1, Len(history)) = history
          /\ (\/ defects'[b] # defects[b]
              \/ \E i \in (Len(history) + 1)..Len(history') : history'[i].defect_id = b)
             => \E p \in Procs : Acts(p, b)]_vars

\* C24 witness: an update_status on defect 1 and an assign_defect on defect 2
\* have run concurrently and returned; each row shows only its own call
ParallelMutations ==
    /\ Finished("c1", "update_status")
    /\ Finished("c2", "assign_defect")
    /\ Overlap("c1", "c2")
    /\ call["c1"].defect_id = 1
    /\ call["c2"].defect_id = 2
    /\ defects[1].status = "Fixed" /\ defects[1].assigned_to = NULL
    /\ defects[2].status = "Assigned" /\ defects[2].fixed_date = NULL
    /\ Cardinality(HistoryOf(history, 1)) = 2
    /\ Cardinality(HistoryOf(history, 2)) = 2

\* C25: no operation blocks indefinitely: under fair scheduling of the
\* concurrent callers every started call eventually ends, and every
\* update_status (assign_defect) call that has committed its defect-row write
\* eventually has its history entry committed.
NoIndefiniteBlocking ==
    \A p \in Procs :
        /\ (pc[p] # "idle") ~> Idle(p)
        /\ (pc[p] \in {"status_log", "assign_log"})
           ~> (\E i \in (Len(pre[p].history) + 1)..Len(history) :
                  /\ call[p].op \in {"update_status", "assign_defect"}
                  /\ history[i].defect_id = call[p].defect_id
                  /\ history[i].field_changed = Some(PrimaryField(call[p].op))
                  /\ history[i].new_value = PrimaryValue(defects[call[p].defect_id], call[p].op))

\* C26: referential integrity of the audit trail: in every reachable state
\* the defect_id of every history entry is the id of a row of the defects
\* table, whatever sequence of operations, on existing or on non-existing
\* ids, produced the state.
ReferentialIntegrity ==
    \A i \in DOMAIN history : history[i].defect_id \in DOMAIN defects

\* the rowids of the entries of defect id that record a status: its creation
\* entry and the entries with field_changed = status
StatusEntries(h, id) ==
    {i \in HistoryOf(h, id) : h[i].field_changed \in {NULL, Some("status")}}

\* C27: the status of a defect can be reconstructed from its history: after
\* any sequence of operations executed one at a time, the status of every
\* defect is the new_value of its most recent status-recording history
\* entry, and the old_value of every status entry is the new_value of the
\* status-recording entry before it.
StatusFromHistory ==
    (\A p \in Procs : Idle(p)) =>
        \A d \in DOMAIN defects :
            LET entries == StatusEntries(history, d) IN
            /\ entries # {}
            /\ \A i \in entries :
                   /\ (\A j \in entries : j <= i)
                      => history[i].new_value = Some(defects[d].status)
                   /\ \A j \in entries :
                          (j < i /\ \A k \in entries : ~(j < k /\ k < i))
                          => history[i].old_value = history[j].new_value

\* C28: assign_defect never overwrites a status other than New: under every
\* interleaving with a concurrent update_status on the same defect, the
\* UPDATE of assign_defect changes the status of the row only if the status
\* stored in the row at the moment of that write is New, so a status the
\* concurrent update_status has committed is never replaced by Assigned.
AssignKeepsStatus ==
    [][\A p \in Procs :
          (pc[p] = "assign_update" /\ pc'[p] = "assign_log")
          => LET d == call[p].defect_id IN
             defects'[d].status # defects[d].status => defects[d].status = "New"]_vars

\* C29: for concurrent update_status calls on the same defect, the order of
\* their history entries is the order in which their status writes
\* committed: once all calls have returned, the new_value of the last status
\* history entry of the defect is the status stored in the defect row.
HistoryOrder ==
    \A p, q \in Procs :
        (/\ p # q
         /\ \A r \in Procs : Idle(r)
         /\ Finished(p, "update_status") /\ ret[p].value = TRUE
         /\ Finished(q, "update_status") /\ ret[q].value = TRUE
         /\ call[p].defect_id = call[q].defect_id
         /\ Overlap(p, q)
         /\ defects[call[p].defect_id].assigned_to = NULL)
        => LET d == call[p].defect_id
               entries == {i \in HistoryOf(history, d) :
                              history[i].field_changed = Some("status")}
           IN \A i \in entries :
                  (\A j \in entries : j <= i)
                  => history[i].new_value = Some(defects[d].status)

=============================================================================
